---- MODULE Spec2Model ----
(***************************************************************************)
(* Model of tcdsl.py: the thread-local "current OpDef" slot managed by the *)
(* op_def context manager, the per-OpDef type parameter registry and the   *)
(* ordered log of specializations.                                         *)
(*                                                                         *)
(* A Python object is a heap cell: heap[d] is the OpDef with identity d.   *)
(* A dict is a function on its key set.  scope[t] is the stack of op_def   *)
(* generators of thread t that are suspended at their yield, each with its *)
(* local variable inst.  result[t] is what thread t got from its latest    *)
(* call: a return value, or an exception in flight (err # NoErr), which    *)
(* the caller either handles (Except) or lets unwind the with-block (the   *)
(* finally clause of op_def).                                              *)
(***************************************************************************)
EXTENDS Integers, Sequences, FiniteSets, TLC

(* ---- bounds ---- *)
MaxDefs == 2        \* OpDef objects constructed in one run of scopes
MaxBodyDefs == 1    \* OpDef objects constructed in one run of scope bodies
MaxSpecs == 2       \* entries in one OpDef's specializations list
MaxSyms == 3        \* positional arguments of one type_param call

(* ---- inputs ---- *)
Threads == {1, 2}
MainThread == CHOOSE t \in Threads : \A u \in Threads : t <= u
OpNames == {"matmul"}
Names == {"I", "J"}
IrTypes == {"f32"}          \* values that are instances of mlir.ir.Type
NonTypes == {"'f32'"}       \* values that are not
Values == IrTypes \cup NonTypes

NoDef == 0                  \* _CONTEXT has no attribute op_def

SymSeqs == UNION {[1..n -> Names] : n \in 0..MaxSyms}

\* type_bindings: keyword arguments, distinct keys, in call order
BindingItems ==
  {b \in UNION {[1..n -> Names \X Values] : n \in 1..Cardinality(Names)} :
     \A i, j \in DOMAIN b : i # j => b[i][1] # b[j][1]}

\* the calls made in the bodies when the scopes are the concern
ThreadSymSeqs == {<<"I">>}
ThreadBindingItems == {<< <<"I", "f32">> >>, << <<"J", "'f32'">> >>}

(* ---- exceptions ---- *)
NoErr == [type |-> "none", msg |-> <<>>]
NestingError ==
  [type |-> "ValueError", msg |-> <<"Cannot nest multiple operations via 'OpDef'">>]
NoActiveError ==
  [type |-> "AttributeError",
   msg |-> <<"The expression requires an active OpDef(...) context">>]
TypeParam_repr(self) == <<"TypeParam('", self.type_symbol, "')">>
DuplicateError(tp) ==
  [type |-> "ValueError",
   msg |-> <<"Duplicate type parameter: ">> \o TypeParam_repr(tp)]
\* a type error whose message leaves the value out
TypeBindingError_bare(ir_type) ==
  [type |-> "TypeError", msg |-> <<"Expected mlir.ir.Type">>]

TypeBindingError(ir_type) ==
  [type |-> "TypeError", msg |-> <<"Expected mlir.ir.Type but got ", ir_type>>]
DelAttrError == [type |-> "AttributeError", msg |-> <<"op_def">>]
BodyError == [type |-> "RuntimeError", msg |-> <<"raised by the with-body">>]

VARIABLES heap, ctx, scope, result
vars == <<heap, ctx, scope, result>>

(* ---- _CONTEXT = threading.local() ---- *)
hasattr_op_def(c, t) == c[t] # NoDef
\* a slot that is one module global instead of a threading.local attribute
setattr_op_def_global(c, t, d) == [u \in DOMAIN c |-> d]
setattr_op_def(c, t, d) == [c EXCEPT ![t] = d]
delattr_op_def(c, t) == [c EXCEPT ![t] = NoDef]

(* ---- class TypeParam ---- *)
\* obj stands for the identity of the constructed object: a new TypeParam is
\* another object than the one `params` already holds under the same symbol.
TypeParam(type_symbol, params) ==
  [type_symbol |-> type_symbol,
   obj |-> IF type_symbol \in DOMAIN params THEN 1 - params[type_symbol].obj ELSE 0]

(* ---- class OpDef ---- *)
OpDef(op_name) ==
  [op_name |-> op_name, type_params |-> <<>>, specializations |-> <<>>]

current_op(c, t) ==
  IF ~hasattr_op_def(c, t)
    THEN [err |-> NoActiveError, ret |-> NoDef]
    ELSE [err |-> NoErr, ret |-> c[t]]

\* an add_type_param that never reports a duplicate
add_type_param_silent(self, type_param_, exist_ok) ==
  IF type_param_.type_symbol \in DOMAIN self.type_params
    THEN [self |-> self, err |-> NoErr]
    ELSE [self |-> [self EXCEPT !.type_params =
                      (type_param_.type_symbol :> type_param_) @@ @],
          err |-> NoErr]

\* an add_type_param that inserts only on the explicit path
add_type_param_explicit_only(self, type_param_, exist_ok) ==
  IF type_param_.type_symbol \in DOMAIN self.type_params
    THEN IF ~exist_ok
           THEN [self |-> self, err |-> DuplicateError(type_param_)]
           ELSE [self |-> self, err |-> NoErr]
    ELSE IF exist_ok
      THEN [self |-> self, err |-> NoErr]
      ELSE [self |-> [self EXCEPT !.type_params =
                        (type_param_.type_symbol :> type_param_) @@ @],
            err |-> NoErr]

\* an add_type_param that overwrites the entry when exist_ok is set
add_type_param_replace(self, type_param_, exist_ok) ==
  IF type_param_.type_symbol \in DOMAIN self.type_params /\ ~exist_ok
    THEN [self |-> self, err |-> DuplicateError(type_param_)]
    ELSE [self |-> [self EXCEPT !.type_params =
                      (type_param_.type_symbol :> type_param_) @@ @],
          err |-> NoErr]

add_type_param(self, type_param_, exist_ok) ==
  IF type_param_.type_symbol \in DOMAIN self.type_params
    THEN IF ~exist_ok
           THEN [self |-> self, err |-> DuplicateError(type_param_)]
           ELSE [self |-> self, err |-> NoErr]
    ELSE [self |-> [self EXCEPT !.type_params =
                      (type_param_.type_symbol :> type_param_) @@ @],
          err |-> NoErr]

\* "\n".join(lines): a text is the sequence of its pieces
RECURSIVE join(_, _)
join(sep, lines) ==
  IF lines = <<>> THEN <<>>
  ELSE IF Len(lines) = 1 THEN Head(lines)
  ELSE Head(lines) \o <<sep>> \o join(sep, Tail(lines))

\* the keys of a dict, one after the other
RECURSIVE dict_keys(_)
dict_keys(S) ==
  IF S = {} THEN <<>>
  ELSE LET k == CHOOSE k \in S : TRUE IN <<k>> \o dict_keys(S \ {k})

\* repr of a binding dict: {'T': Type(f32), 'TACCUM': Type(f32)}
dict_repr(s) ==
  LET keys == dict_keys(DOMAIN s)
      item(k) == <<"'", k, "'", ": ", "Type(", s[k], ")">>
  IN <<"{">> \o join(", ", [i \in DOMAIN keys |-> item(keys[i])]) \o <<"}">>

\* a __repr__ that lists the specializations last to first
OpDef_repr_reversed(self) ==
  LET n == Len(self.specializations)
      lines == <<<<"OpDef<", self.op_name, ">:">>>> \o
               [i \in 1..n |-> <<"  ">> \o dict_repr(self.specializations[n + 1 - i])]
  IN join("\n", lines)

OpDef_repr(self) ==
  LET lines == <<<<"OpDef<", self.op_name, ">:">>>> \o
               [i \in DOMAIN self.specializations |->
                  <<"  ">> \o dict_repr(self.specializations[i])]
  IN join("\n", lines)

\* ---- def type_param ----
\* the for loop over type_symbols
RECURSIVE type_param_loop(_, _, _, _)
type_param_loop(h, c, t, type_symbols) ==
  IF type_symbols = <<>>
    THEN [heap |-> h, err |-> NoErr]
    ELSE LET cur == current_op(c, t)
         IN IF cur.err # NoErr
              THEN [heap |-> h, err |-> cur.err]
              ELSE LET tp == TypeParam(Head(type_symbols), h[cur.ret].type_params)
                       r == add_type_param(h[cur.ret], tp, FALSE)
                   IN IF r.err # NoErr
                        THEN [heap |-> h, err |-> r.err]
                        ELSE type_param_loop([h EXCEPT ![cur.ret] = r.self],
                                             c, t, Tail(type_symbols))

\* a type_param that undoes its insertions when a later symbol is a duplicate
type_param_rollback(h, c, t, type_symbols) ==
  LET r == type_param_loop(h, c, t, type_symbols)
  IN IF r.err # NoErr THEN [heap |-> h, err |-> r.err] ELSE r

type_param(h, c, t, type_symbols) == type_param_loop(h, c, t, type_symbols)

\* ---- def specialize ----
\* the for loop over type_bindings.items()
RECURSIVE specialize_loop(_, _, _)
specialize_loop(op, items, binding) ==
  IF items = <<>>
    THEN [op |-> op, err |-> NoErr, binding |-> binding]
    ELSE LET type_symbol == Head(items)[1]
             ir_type == Head(items)[2]
             r == add_type_param(op, TypeParam(type_symbol, op.type_params), TRUE)
         IN IF r.err # NoErr
              THEN [op |-> r.self, err |-> r.err, binding |-> binding]
              ELSE IF ir_type \notin IrTypes
                THEN [op |-> r.self, err |-> TypeBindingError(ir_type),
                      binding |-> binding]
                ELSE specialize_loop(r.self, Tail(items),
                                     (type_symbol :> ir_type) @@ binding)

\* a specialize that undoes its registrations when a value is rejected
specialize_rollback(h, c, t, type_bindings) ==
  LET cur == current_op(c, t)
  IN IF cur.err # NoErr
       THEN [heap |-> h, err |-> cur.err]
       ELSE LET r == specialize_loop(h[cur.ret], type_bindings, <<>>)
            IN IF r.err # NoErr
                 THEN [heap |-> h, err |-> r.err]
                 ELSE [heap |-> [h EXCEPT ![cur.ret] =
                                   [r.op EXCEPT !.specializations =
                                      Append(@, r.binding)]],
                       err |-> NoErr]

\* a specialize that records the bindings validated so far when it fails
specialize_partial(h, c, t, type_bindings) ==
  LET cur == current_op(c, t)
  IN IF cur.err # NoErr
       THEN [heap |-> h, err |-> cur.err]
       ELSE LET r == specialize_loop(h[cur.ret], type_bindings, <<>>)
            IN [heap |-> [h EXCEPT ![cur.ret] =
                            [r.op EXCEPT !.specializations = Append(@, r.binding)]],
                err |-> r.err]

\* a specialize that skips a binding dict the list already holds
specialize_dedup(h, c, t, type_bindings) ==
  LET cur == current_op(c, t)
  IN IF cur.err # NoErr
       THEN [heap |-> h, err |-> cur.err]
       ELSE LET r == specialize_loop(h[cur.ret], type_bindings, <<>>)
                seen == \E i \in DOMAIN r.op.specializations :
                          r.op.specializations[i] = r.binding
            IN IF r.err # NoErr
                 THEN [heap |-> [h EXCEPT ![cur.ret] = r.op], err |-> r.err]
                 ELSE [heap |-> [h EXCEPT ![cur.ret] =
                                   [r.op EXCEPT !.specializations =
                                      IF seen THEN @ ELSE Append(@, r.binding)]],
                       err |-> NoErr]

specialize(h, c, t, type_bindings) ==
  LET cur == current_op(c, t)
  IN IF cur.err # NoErr
       THEN [heap |-> h, err |-> cur.err]
       ELSE LET r == specialize_loop(h[cur.ret], type_bindings, <<>>)
            IN IF r.err # NoErr
                 THEN [heap |-> [h EXCEPT ![cur.ret] = r.op], err |-> r.err]
                 ELSE [heap |-> [h EXCEPT ![cur.ret] =
                                   [r.op EXCEPT !.specializations =
                                      Append(@, r.binding)]],
                       err |-> NoErr]

(* ---- @contextmanager def op_def ---- *)
\* an op_def without the nesting check
op_def_enter_unchecked(h, c, s, t, op_name) ==
  LET inst == Len(h) + 1
  IN [heap |-> Append(h, OpDef(op_name)),
      ctx |-> setattr_op_def(c, t, inst),
      scope |-> [s EXCEPT ![t] = <<inst>> \o @],
      err |-> NoErr, ret |-> inst]

\* an op_def that installs a second OpDef, not the instance it yields
op_def_enter_copy(h, c, s, t, op_name) ==
  IF hasattr_op_def(c, t)
    THEN [heap |-> h, ctx |-> c, scope |-> s, err |-> NestingError, ret |-> NoDef]
    ELSE LET inst == Len(h) + 1
         IN [heap |-> Append(Append(h, OpDef(op_name)), OpDef(op_name)),
             ctx |-> setattr_op_def(c, t, inst + 1),
             scope |-> [s EXCEPT ![t] = <<inst>> \o @],
             err |-> NoErr, ret |-> inst]

\* an op_def whose new OpDef shares the dict and the list of the previous one
op_def_enter_shared(h, c, s, t, op_name) ==
  IF hasattr_op_def(c, t)
    THEN [heap |-> h, ctx |-> c, scope |-> s, err |-> NestingError, ret |-> NoDef]
    ELSE LET inst == Len(h) + 1
             obj == IF h = <<>> THEN OpDef(op_name)
                    ELSE [h[Len(h)] EXCEPT !.op_name = op_name]
         IN [heap |-> Append(h, obj),
             ctx |-> setattr_op_def(c, t, inst),
             scope |-> [s EXCEPT ![t] = <<inst>> \o @],
             err |-> NoErr, ret |-> inst]

\* an op_def whose nesting check is inside the try: the finally clause runs
\* for the failed enter too
op_def_enter_check_in_try(h, c, s, t, op_name) ==
  IF hasattr_op_def(c, t)
    THEN [heap |-> h, ctx |-> delattr_op_def(c, t), scope |-> s,
          err |-> NestingError, ret |-> NoDef]
    ELSE LET inst == Len(h) + 1
         IN [heap |-> Append(h, OpDef(op_name)),
             ctx |-> setattr_op_def(c, t, inst),
             scope |-> [s EXCEPT ![t] = <<inst>> \o @],
             err |-> NoErr, ret |-> inst]

\* __enter__: the generator runs up to its yield
op_def_enter(h, c, s, t, op_name) ==
  IF hasattr_op_def(c, t)
    THEN [heap |-> h, ctx |-> c, scope |-> s, err |-> NestingError, ret |-> NoDef]
    ELSE LET inst == Len(h) + 1
         IN [heap |-> Append(h, OpDef(op_name)),
             ctx |-> setattr_op_def(c, t, inst),
             scope |-> [s EXCEPT ![t] = <<inst>> \o @],
             err |-> NoErr, ret |-> inst]

\* an op_def whose del is not in a finally clause: skipped when the body raises
op_def_exit_no_finally(c, s, t, raised) ==
  IF raised # NoErr
    THEN [ctx |-> c, scope |-> [s EXCEPT ![t] = Tail(@)], err |-> raised]
    ELSE IF hasattr_op_def(c, t)
      THEN [ctx |-> delattr_op_def(c, t), scope |-> [s EXCEPT ![t] = Tail(@)],
            err |-> raised]
      ELSE [ctx |-> c, scope |-> [s EXCEPT ![t] = Tail(@)], err |-> DelAttrError]

\* __exit__: the generator resumes at its yield, normally or with the body's
\* exception thrown into it, and runs the finally clause
op_def_exit(c, s, t, raised) ==
  IF hasattr_op_def(c, t)
    THEN [ctx |-> delattr_op_def(c, t), scope |-> [s EXCEPT ![t] = Tail(@)],
          err |-> raised]
    ELSE [ctx |-> c, scope |-> [s EXCEPT ![t] = Tail(@)], err |-> DelAttrError]

(* ---- state machine ---- *)
\* what a thread got from its latest call: the function fn called with args
\* raised err or returned ret, and added these type symbols to the registry
\* of the thread's current OpDef
Res(fn, args, err, ret, added) ==
  [fn |-> fn, args |-> args, err |-> err, ret |-> ret, added |-> added]
NoRes == Res("none", <<>>, NoErr, NoDef, {})

\* the type symbols that are in the registry of thread t's current OpDef in
\* heap h2 and were not in heap h1
Added(h1, h2, c, t) ==
  IF hasattr_op_def(c, t) /\ c[t] \in DOMAIN h1
    THEN DOMAIN h2[c[t]].type_params \ DOMAIN h1[c[t]].type_params
    ELSE {}

Init ==
  /\ heap = <<>>
  /\ ctx = [t \in Threads |-> NoDef]
  /\ scope = [t \in Threads |-> <<>>]
  /\ result = [t \in Threads |-> NoRes]

\* no exception is in flight on thread t
Running(t) == result[t].err = NoErr

\* with op_def(op_name) [as op]:
Enter(t, op_name) ==
  /\ Running(t)
  /\ LET r == op_def_enter(heap, ctx, scope, t, op_name)
     IN /\ heap' = r.heap
        /\ ctx' = r.ctx
        /\ scope' = r.scope
        /\ result' = [result EXCEPT ![t] = Res("op_def", <<op_name>>, r.err, r.ret, {})]

\* the with-block ends, normally or by the exception in flight
Exit(t) ==
  /\ scope[t] # <<>>
  /\ LET r == op_def_exit(ctx, scope, t, result[t].err)
     IN /\ ctx' = r.ctx
        /\ scope' = r.scope
        /\ result' = [result EXCEPT ![t].err = r.err]
  /\ UNCHANGED heap

Declare(t, type_symbols) ==
  /\ Running(t)
  /\ LET r == type_param(heap, ctx, t, type_symbols)
     IN /\ heap' = r.heap
        /\ result' = [result EXCEPT ![t] =
                        Res("type_param", type_symbols, r.err, NoDef,
                            Added(heap, r.heap, ctx, t))]
  /\ UNCHANGED <<ctx, scope>>

Specialize(t, type_bindings) ==
  /\ Running(t)
  /\ LET r == specialize(heap, ctx, t, type_bindings)
     IN /\ \A d \in DOMAIN r.heap : Len(r.heap[d].specializations) <= MaxSpecs
        /\ heap' = r.heap
        /\ result' = [result EXCEPT ![t] =
                        Res("specialize", type_bindings, r.err, NoDef,
                            Added(heap, r.heap, ctx, t))]
  /\ UNCHANGED <<ctx, scope>>

Current(t) ==
  /\ Running(t)
  /\ LET r == current_op(ctx, t)
     IN result' = [result EXCEPT ![t] = Res("current_op", <<>>, r.err, r.ret, {})]
  /\ UNCHANGED <<heap, ctx, scope>>

\* the with-body raises an error of its own
BodyRaise(t) ==
  /\ Running(t)
  /\ scope[t] # <<>>
  /\ result' = [result EXCEPT ![t] = Res("body", <<>>, BodyError, NoDef, {})]
  /\ UNCHANGED <<heap, ctx, scope>>

\* the caller handles the exception in flight
Except(t) ==
  /\ ~Running(t)
  /\ result' = [result EXCEPT ![t] = NoRes]
  /\ UNCHANGED <<heap, ctx, scope>>

\* one thread, the calls in the scope bodies are the concern
Next ==
  \/ \E op_name \in OpNames :
        Enter(MainThread, op_name) /\ Len(heap') <= MaxBodyDefs
  \/ Exit(MainThread)
  \/ \E type_symbols \in SymSeqs : Declare(MainThread, type_symbols)
  \/ \E type_bindings \in BindingItems : Specialize(MainThread, type_bindings)
  \/ Current(MainThread)
  \/ BodyRaise(MainThread)
  \/ Except(MainThread)

Spec == Init /\ [][Next]_vars

\* the steps of thread t when the scopes are the concern
StepOf(t) ==
  \/ \E op_name \in OpNames : Enter(t, op_name) /\ Len(heap') <= MaxDefs
  \/ Exit(t)
  \/ \E type_symbols \in ThreadSymSeqs : Declare(t, type_symbols)
  \/ \E type_bindings \in ThreadBindingItems : Specialize(t, type_bindings)
  \/ Current(t)
  \/ BodyRaise(t)
  \/ Except(t)

\* one thread opens and closes scopes one after the other
NextScopes ==
  \/ \E op_name \in OpNames : Enter(MainThread, op_name) /\ Len(heap') <= MaxDefs
  \/ Exit(MainThread)
  \/ \E type_symbols \in ThreadSymSeqs : Declare(MainThread, type_symbols)
  \/ \E type_bindings \in ThreadBindingItems :
        Specialize(MainThread, type_bindings)
  \/ Current(MainThread)
  \/ BodyRaise(MainThread)
  \/ Except(MainThread)

SpecScopes == Init /\ [][NextScopes]_vars

\* two threads use the module side by side
NextThreads ==
  \/ \E t \in Threads, op_name \in OpNames :
        Enter(t, op_name) /\ Len(heap') <= MaxDefs
  \/ \E t \in Threads : Exit(t)
  \/ \E t \in Threads, type_symbols \in ThreadSymSeqs : Declare(t, type_symbols)
  \/ \E t \in Threads, type_bindings \in ThreadBindingItems :
        Specialize(t, type_bindings)
  \/ \E t \in Threads : Current(t)
  \/ \E t \in Threads : BodyRaise(t)
  \/ \E t \in Threads : Except(t)

SpecThreads == Init /\ [][NextThreads]_vars

(* ======================================================================= *)
(* Properties                                                              *)
(* ======================================================================= *)

\* a Definition is active on thread t: a with-block of op_def is open
Active(t) == scope[t] # <<>>
\* the Definition the open with-block was given
ActiveDef(t) == Head(scope[t])
Registry(h, d) == h[d].type_params
Log(h, d) == h[d].specializations

\* positions of type_symbols whose symbol is in the registry reg or occurs
\* earlier in the same call
Repeats(reg, type_symbols) ==
  {i \in DOMAIN type_symbols :
     \/ type_symbols[i] \in DOMAIN reg
     \/ \E j \in 1..(i - 1) : type_symbols[j] = type_symbols[i]}
FirstOf(S) == IF S = {} THEN 0 ELSE CHOOSE i \in S : \A k \in S : i <= k

\* positions of type_bindings whose value is not a type value
Invalid(type_bindings) ==
  {i \in DOMAIN type_bindings : type_bindings[i][2] \notin IrTypes}
\* the mapping a keyword argument list denotes
BindingMap(type_bindings) ==
  [n \in {type_bindings[i][1] : i \in DOMAIN type_bindings} |->
     type_bindings[CHOOSE i \in DOMAIN type_bindings : type_bindings[i][1] = n][2]]

\* C1: an enter while a Definition is active on the thread fails with the
\* nesting error and leaves the scope as it is, an enter with none active
\* succeeds and opens the scope, and no thread ever has two open scopes.
C1_EnterExclusive ==
  /\ [](\A t \in Threads : Len(scope[t]) <= 1)
  /\ [][\A t \in Threads, op_name \in OpNames :
          Enter(t, op_name) =>
            IF Active(t)
              THEN result'[t].err = NestingError /\ scope'[t] = scope[t]
              ELSE result'[t].err = NoErr /\ Len(scope'[t]) = 1]_vars

\* a second scope was entered after the first one's exit, and an enter
\* inside it failed with the nesting error
C1_Witness ==
  /\ Len(heap) = 2
  /\ scope[MainThread] = <<2>>
  /\ result[MainThread].fn = "op_def"
  /\ result[MainThread].err = NestingError

\* C2: every exit, with or without an exception in flight, leaves the thread
\* with no active Definition: the slot is empty, current_op fails and op_def
\* can be entered again.
C2_ExitClears ==
  [][\A t \in Threads :
       Exit(t) =>
         /\ ctx'[t] = NoDef
         /\ scope'[t] = <<>>
         /\ current_op(ctx', t).err = NoActiveError
         /\ \A op_name \in OpNames :
              op_def_enter(heap', ctx', scope', t, op_name).err = NoErr]_vars

\* a scope was left by the duplicate error of a type_param call in its body
C2_Witness ==
  /\ ~Active(MainThread)
  /\ ctx[MainThread] = NoDef
  /\ result[MainThread].fn = "type_param"
  /\ result[MainThread].err = DuplicateError([type_symbol |-> "I"])

\* C3: a step of one thread leaves the slot, the scope and the result of
\* every other thread as they are, changes no Definition but the thread's
\* own active one, and its enter succeeds whenever the thread itself has no
\* active Definition.
C3_ThreadIsolation ==
  [][\A t \in Threads :
       StepOf(t) =>
         /\ \A u \in Threads \ {t} :
              ctx'[u] = ctx[u] /\ scope'[u] = scope[u] /\ result'[u] = result[u]
         /\ \A d \in DOMAIN heap :
              (~Active(t) \/ d # ActiveDef(t)) => heap'[d] = heap[d]
         /\ \A op_name \in OpNames :
              (Enter(t, op_name) /\ ~Active(t)) => result'[t].err = NoErr]_vars

\* both threads have an active Definition, each its own, with different
\* registries
C3_Witness ==
  /\ \A t \in Threads : Active(t) /\ ctx[t] = ActiveDef(t)
  /\ ctx[1] # ctx[2]
  /\ DOMAIN Registry(heap, ctx[1]) = {"I"}
  /\ DOMAIN Registry(heap, ctx[2]) = {"I", "J"}

\* C4: a type_param call with a symbol that is in the registry already, or
\* that occurs earlier in the same call, fails with the duplicate error that
\* names the first such symbol, and every entry the registry had before the
\* call is still there, the same object.
C4_DuplicateDeclare ==
  [][\A t \in Threads, type_symbols \in SymSeqs :
       (Declare(t, type_symbols) /\ Active(t)) =>
         LET reg == Registry(heap, ActiveDef(t))
             reg2 == Registry(heap', ActiveDef(t))
             i == FirstOf(Repeats(reg, type_symbols))
         IN /\ i # 0 =>
                 result'[t].err = DuplicateError([type_symbol |-> type_symbols[i]])
            /\ i = 0 => result'[t].err = NoErr
            /\ \A n \in DOMAIN reg : n \in DOMAIN reg2 /\ reg2[n] = reg[n]]_vars

\* type_param('J') failed on a symbol declared by an earlier call: nothing
\* was added and both earlier entries are in the registry
C4_Witness ==
  /\ Active(MainThread)
  /\ result[MainThread].fn = "type_param"
  /\ result[MainThread].args = <<"J">>
  /\ result[MainThread].err = DuplicateError([type_symbol |-> "J"])
  /\ result[MainThread].added = {}
  /\ DOMAIN Registry(heap, ActiveDef(MainThread)) = {"I", "J"}

\* C5: when a type_param call fails on a duplicate, the registry afterwards
\* holds what it held before and the symbols of the call that precede the
\* offending one, and nothing else.
C5_PartialDeclare ==
  [][\A t \in Threads, type_symbols \in SymSeqs :
       (Declare(t, type_symbols) /\ Active(t)) =>
         LET reg == Registry(heap, ActiveDef(t))
             reg2 == Registry(heap', ActiveDef(t))
             i == FirstOf(Repeats(reg, type_symbols))
         IN i # 0 =>
              DOMAIN reg2 =
                DOMAIN reg \cup {type_symbols[j] : j \in 1..(i - 1)}]_vars

\* type_param('I', 'I', 'J') failed on its second symbol: 'I' was added by
\* the call and stays, 'J' was not added
C5_Witness ==
  /\ Active(MainThread)
  /\ result[MainThread].fn = "type_param"
  /\ result[MainThread].args = <<"I", "I", "J">>
  /\ result[MainThread].err = DuplicateError([type_symbol |-> "I"])
  /\ result[MainThread].added = {"I"}
  /\ DOMAIN Registry(heap, ActiveDef(MainThread)) = {"I"}

\* C6: a specialize call in a scope whose values are all type values succeeds,
\* and every symbol it binds, declared before or not, is in the registry
\* afterwards.
C6_ImplicitDeclare ==
  [][\A t \in Threads, type_bindings \in BindingItems :
       (Specialize(t, type_bindings) /\ Active(t) /\ Invalid(type_bindings) = {}) =>
         /\ result'[t].err = NoErr
         /\ \A i \in DOMAIN type_bindings :
              type_bindings[i][1] \in DOMAIN Registry(heap', ActiveDef(t))]_vars

\* specialize(I=f32) succeeded and added 'I', which no earlier call declared
C6_Witness ==
  /\ Active(MainThread)
  /\ result[MainThread].fn = "specialize"
  /\ result[MainThread].args = << <<"I", "f32">> >>
  /\ result[MainThread].err = NoErr
  /\ result[MainThread].added = {"I"}
  /\ "I" \in DOMAIN Registry(heap, ActiveDef(MainThread))

\* C7: a specialize call in a scope with a value that is not a type value
\* fails with the type error for the first such value, and the symbol bound
\* to that value is in the registry afterwards.
C7_DeclareBeforeCheck ==
  [][\A t \in Threads, type_bindings \in BindingItems :
       (Specialize(t, type_bindings) /\ Active(t) /\ Invalid(type_bindings) # {}) =>
         LET k == FirstOf(Invalid(type_bindings))
         IN /\ result'[t].err = TypeBindingError(type_bindings[k][2])
            /\ type_bindings[k][1] \in DOMAIN Registry(heap', ActiveDef(t))]_vars

\* specialize(I='f32') failed its value check and 'I', not declared before,
\* is in the registry
C7_Witness ==
  /\ Active(MainThread)
  /\ result[MainThread].fn = "specialize"
  /\ result[MainThread].args = << <<"I", "'f32'">> >>
  /\ result[MainThread].err = TypeBindingError("'f32'")
  /\ result[MainThread].added = {"I"}
  /\ DOMAIN Registry(heap, ActiveDef(MainThread)) = {"I"}

\* C8: a specialize call that fails with the type error leaves the
\* specializations list of every Definition as it was.
C8_FailedAddNotLogged ==
  [][\A t \in Threads, type_bindings \in BindingItems :
       (Specialize(t, type_bindings) /\ result'[t].err.type = "TypeError") =>
         \A d \in DOMAIN heap : Log(heap', d) = Log(heap, d)]_vars

\* specialize(I=f32, J='f32') failed after a valid binding: the list holds
\* the one entry of the earlier call and no entry for 'I' alone
C8_Witness ==
  /\ Active(MainThread)
  /\ result[MainThread].fn = "specialize"
  /\ result[MainThread].args = << <<"I", "f32">>, <<"J", "'f32'">> >>
  /\ result[MainThread].err.type = "TypeError"
  /\ Log(heap, ActiveDef(MainThread)) = << [n \in {"J"} |-> "f32"] >>

\* C9: a successful specialize call appends the mapping of its bindings as
\* one entry at the end of its Definition's list, also when the list holds an
\* equal entry, and no other step changes a list; a new Definition starts
\* with an empty one.
C9_LogOrder ==
  [][/\ \A d \in DOMAIN heap :
          \/ Log(heap', d) = Log(heap, d)
             /\ ~\E t \in Threads, type_bindings \in BindingItems :
                   /\ Specialize(t, type_bindings)
                   /\ result'[t].err = NoErr
                   /\ Active(t) /\ ActiveDef(t) = d
          \/ \E t \in Threads, type_bindings \in BindingItems :
               /\ Specialize(t, type_bindings)
               /\ result'[t].err = NoErr
               /\ Active(t) /\ ActiveDef(t) = d
               /\ Log(heap', d) = Append(Log(heap, d), BindingMap(type_bindings))
     /\ \A d \in DOMAIN heap' \ DOMAIN heap : Log(heap', d) = <<>>]_vars

\* two calls specialize(I=f32) in a row: the list holds the entry twice
C9_Witness ==
  /\ Active(MainThread)
  /\ result[MainThread].fn = "specialize"
  /\ result[MainThread].args = << <<"I", "f32">> >>
  /\ result[MainThread].err = NoErr
  /\ Log(heap, ActiveDef(MainThread)) =
       << [n \in {"I"} |-> "f32"], [n \in {"I"} |-> "f32"] >>

\* C10: current_op fails with the no-active-definition error exactly when
\* the thread has no open scope; otherwise it returns the object the scope's
\* enter returned, which is the object the thread's slot holds and so the
\* one type_param and specialize change.
C10_CurrentIsScopeObject ==
  /\ [](\A t \in Threads : Active(t) => ctx[t] = ActiveDef(t))
  /\ [][\A t \in Threads :
          /\ Current(t) =>
               IF Active(t)
                 THEN result'[t].err = NoErr /\ result'[t].ret = ActiveDef(t)
                 ELSE result'[t].err = NoActiveError
          /\ \A op_name \in OpNames :
               (Enter(t, op_name) /\ result'[t].err = NoErr) =>
                 result'[t].ret = ActiveDef(t)']_vars

\* current_op returned the Definition of the open scope, and that object
\* shows the declaration and the specialization made in the scope
C10_Witness ==
  /\ Active(MainThread)
  /\ result[MainThread].fn = "current_op"
  /\ result[MainThread].err = NoErr
  /\ result[MainThread].ret = ActiveDef(MainThread)
  /\ DOMAIN Registry(heap, result[MainThread].ret) = {"I", "J"}
  /\ Len(Log(heap, result[MainThread].ret)) = 1

\* C11: a type_param call with at least one symbol and a specialize call made
\* on a thread with no open scope fail with the no-active-definition error,
\* change no Definition and leave the thread without an active Definition.
C11_NoActiveNoEffect ==
  [][\A t \in Threads :
       /\ \A type_symbols \in SymSeqs \ {<<>>} :
            (~Active(t) /\ result'[t].fn = "type_param" /\ Declare(t, type_symbols)) =>
              /\ result'[t].err = NoActiveError
              /\ heap' = heap /\ ctx'[t] = NoDef /\ scope'[t] = <<>>
       /\ \A type_bindings \in BindingItems :
            (~Active(t) /\ result'[t].fn = "specialize" /\ Specialize(t, type_bindings)) =>
              /\ result'[t].err = NoActiveError
              /\ heap' = heap /\ ctx'[t] = NoDef /\ scope'[t] = <<>>]_vars

\* after a scope that declared 'I' and recorded a specialization was left,
\* specialize(J=f32) failed for want of an active Definition and the
\* Definition of the scope is as the scope left it
C11_Witness ==
  /\ ~Active(MainThread)
  /\ Len(heap) = 1
  /\ DOMAIN Registry(heap, 1) = {"I"}
  /\ Len(Log(heap, 1)) = 1
  /\ result[MainThread].fn = "specialize"
  /\ result[MainThread].args = << <<"J", "f32">> >>
  /\ result[MainThread].err = NoActiveError

\* C12: a successful enter allocates a new OpDef that carries the given name,
\* an empty registry and an empty list, installs it in the thread's slot and
\* leaves every earlier OpDef as it was.
C12_FreshDefinition ==
  [][\A t \in Threads, op_name \in OpNames :
       (Enter(t, op_name) /\ result'[t].err = NoErr) =>
         LET inst == result'[t].ret
         IN /\ inst \notin DOMAIN heap
            /\ inst \in DOMAIN heap'
            /\ heap'[inst].op_name = op_name
            /\ Registry(heap', inst) = <<>>
            /\ Log(heap', inst) = <<>>
            /\ ctx'[t] = inst
            /\ \A d \in DOMAIN heap : heap'[d] = heap[d]]_vars

\* the second scope of the thread has just been entered: its Definition is
\* empty although the first scope, of the same name, declared a symbol and
\* recorded a specialization
C12_Witness ==
  /\ Len(heap) = 2
  /\ scope[MainThread] = <<2>>
  /\ result[MainThread].fn = "op_def"
  /\ result[MainThread].ret = 2
  /\ heap[1].op_name = heap[2].op_name
  /\ DOMAIN Registry(heap, 1) # {}
  /\ Len(Log(heap, 1)) = 1
  /\ Registry(heap, 2) = <<>>
  /\ Log(heap, 2) = <<>>

\* the pieces of a text
Pieces(text) == {text[i] : i \in DOMAIN text}
\* the lines of a text: its pieces between the newlines
RECURSIVE SplitLines(_, _)
SplitLines(text, line) ==
  IF text = <<>> THEN <<line>>
  ELSE IF Head(text) = "\n" THEN <<line>> \o SplitLines(Tail(text), <<>>)
  ELSE SplitLines(Tail(text), Append(line, Head(text)))

C14_ReprLines ==
  \A d \in DOMAIN heap :
    LET lines == SplitLines(OpDef_repr(heap[d]), <<>>)
        log == Log(heap, d)
    IN /\ Len(lines) = Len(log) + 1
       /\ lines[1] = <<"OpDef<", heap[d].op_name, ">:">>
       /\ \A i \in DOMAIN log :
            /\ Head(lines[i + 1]) = "  "
            /\ Pieces(lines[i + 1]) \cap Names = DOMAIN log[i]
            /\ Pieces(lines[i + 1]) \cap Values = {log[i][n] : n \in DOMAIN log[i]}
            /\ Len(lines[i + 1]) = 1 + Len(dict_repr(log[i]))

\* an OpDef with two different specializations, shown on three lines
C14_Witness ==
  /\ heap # <<>>
  /\ Len(Log(heap, 1)) = 2
  /\ DOMAIN Log(heap, 1)[1] = {"I", "J"}
  /\ DOMAIN Log(heap, 1)[2] = {"J"}
  /\ Len(SplitLines(OpDef_repr(heap[1]), <<>>)) = 3

\* C15: an enter that fails with the nesting error changes nothing: the
\* Definitions, the slot and the open scope stay as they are and the error is
\* the caller's result; a slot that was set is emptied by an exit of that
\* thread's scope and by no other step.
C15_FailedEnterNoEffect ==
  [][\A t \in Threads :
       /\ \A op_name \in OpNames :
            (Enter(t, op_name) /\ Active(t)) =>
              /\ result'[t].err = NestingError
              /\ heap' = heap /\ ctx' = ctx /\ scope' = scope
       /\ (ctx[t] # NoDef /\ ctx'[t] = NoDef) => Exit(t)]_vars

\* an enter inside an open scope failed: the scope's Definition is still the
\* active one, with its symbol and its specialization
C15_Witness ==
  /\ scope[MainThread] = <<1>>
  /\ ctx[MainThread] = 1
  /\ result[MainThread].fn = "op_def"
  /\ result[MainThread].err = NestingError
  /\ DOMAIN Registry(heap, 1) = {"I"}
  /\ Len(Log(heap, 1)) = 1

\* C16: in every Definition, every key of every entry of the specializations
\* list is a type symbol of the registry.
C16_KeysRegistered ==
  \A d \in DOMAIN heap :
    \A i \in DOMAIN Log(heap, d) :
      DOMAIN Log(heap, d)[i] \subseteq DOMAIN Registry(heap, d)

\* a specialization that binds 'I' only, in a Definition whose registry has
\* 'I' and 'J'
C16_Witness ==
  /\ heap # <<>>
  /\ DOMAIN Registry(heap, 1) = {"I", "J"}
  /\ Len(Log(heap, 1)) = 1
  /\ DOMAIN Log(heap, 1)[1] = {"I"}

\* C17: add_type_param with exist_ok never fails and leaves an OpDef that has
\* the symbol as it is; so a specialize call never raises the duplicate error,
\* keeps every entry of the registry, the same object, adds nothing when all
\* its symbols are registered, and then succeeds if its values are type values.
C17_DeclareIfAbsent ==
  /\ [](\A d \in DOMAIN heap, n \in Names :
          LET r == add_type_param(heap[d], TypeParam(n, Registry(heap, d)), TRUE)
          IN /\ r.err = NoErr
             /\ n \in DOMAIN Registry(heap, d) => r.self = heap[d])
  /\ [][\A t \in Threads, type_bindings \in BindingItems :
          (Specialize(t, type_bindings) /\ Active(t)) =>
            LET reg == Registry(heap, ActiveDef(t))
                reg2 == Registry(heap', ActiveDef(t))
                known == \A i \in DOMAIN type_bindings :
                           type_bindings[i][1] \in DOMAIN reg
            IN /\ result'[t].err.type # "ValueError"
               /\ \A n \in DOMAIN reg : n \in DOMAIN reg2 /\ reg2[n] = reg[n]
               /\ known => DOMAIN reg2 = DOMAIN reg
               /\ (known /\ Invalid(type_bindings) = {}) =>
                    result'[t].err = NoErr]_vars

\* specialize(I=f32, J=f32) succeeded on a registry that had both symbols:
\* it added none
C17_Witness ==
  /\ Active(MainThread)
  /\ result[MainThread].fn = "specialize"
  /\ result[MainThread].args = << <<"I", "f32">>, <<"J", "f32">> >>
  /\ result[MainThread].err = NoErr
  /\ result[MainThread].added = {}
  /\ DOMAIN Registry(heap, ActiveDef(MainThread)) = {"I", "J"}

\* a specialize call that raises the type error leaves the registry and the
\* list of its Definition as they were (the statement C18 corrects)
C18_Original ==
  [][\A t \in Threads, type_bindings \in BindingItems :
       (Specialize(t, type_bindings) /\ Active(t)
          /\ result'[t].err.type = "TypeError") =>
         /\ Registry(heap', ActiveDef(t)) = Registry(heap, ActiveDef(t))
         /\ Log(heap', ActiveDef(t)) = Log(heap, ActiveDef(t))]_vars

\* C18: a specialize call that raises the type error leaves the list of its
\* Definition as it was and does not undo its registrations: the registry
\* keeps its entries and has, besides, the symbols of the call up to and
\* including the one bound to the rejected value.
C18_FailedAddKeepsSymbols ==
  [][\A t \in Threads, type_bindings \in BindingItems :
       (Specialize(t, type_bindings) /\ Active(t)
          /\ result'[t].err.type = "TypeError") =>
         LET reg == Registry(heap, ActiveDef(t))
             reg2 == Registry(heap', ActiveDef(t))
             k == FirstOf(Invalid(type_bindings))
         IN /\ Log(heap', ActiveDef(t)) = Log(heap, ActiveDef(t))
            /\ DOMAIN reg2 = DOMAIN reg \cup {type_bindings[j][1] : j \in 1..k}
            /\ \A n \in DOMAIN reg : reg2[n] = reg[n]]_vars

\* specialize(I=f32, J='f32') failed on an empty Definition: nothing is in
\* the list, 'I' and 'J' are in the registry
C18_Witness ==
  /\ Active(MainThread)
  /\ result[MainThread].fn = "specialize"
  /\ result[MainThread].args = << <<"I", "f32">>, <<"J", "'f32'">> >>
  /\ result[MainThread].err.type = "TypeError"
  /\ result[MainThread].added = {"I", "J"}
  /\ Log(heap, ActiveDef(MainThread)) = <<>>

\* the scope of Definition d is not open on any thread
Exited(s, d) == \A t \in Threads : \A i \in DOMAIN s[t] : s[t][i] # d

\* C19: a Definition whose scope has been left stays left and is changed by
\* no step of any thread; a type_param or specialize call on a thread
\* without open scope fails with the no-active-definition error, and one on
\* a thread with an open scope changes that scope's Definition only.
C19_FrozenAfterExit ==
  [][/\ \A d \in DOMAIN heap :
          Exited(scope, d) => heap'[d] = heap[d] /\ Exited(scope', d)
     /\ \A t \in Threads :
          (\/ \E type_symbols \in ThreadSymSeqs : Declare(t, type_symbols)
           \/ \E type_bindings \in ThreadBindingItems :
                Specialize(t, type_bindings)) =>
            IF Active(t)
              THEN \A d \in DOMAIN heap : d # ActiveDef(t) => heap'[d] = heap[d]
              ELSE result'[t].err = NoActiveError /\ heap' = heap]_vars

\* the scope of the first Definition was left with a symbol and a
\* specialization; a later call registered symbols in the second Definition,
\* the active one of its thread
C19_Witness ==
  /\ Len(heap) = 2
  /\ Exited(scope, 1)
  /\ DOMAIN Registry(heap, 1) = {"I"}
  /\ Len(Log(heap, 1)) = 1
  /\ \E t \in Threads :
       /\ scope[t] = <<2>>
       /\ result[t].fn = "specialize"
       /\ result[t].added = {"J"}
       /\ DOMAIN Registry(heap, 2) = {"J"}

\* the type symbols of the bindings at positions 1..k
BoundUpTo(type_bindings, k) == {type_bindings[j][1] : j \in 1..k}

\* C20: type_param and specialize use one registry, and the order of the
\* calls matters.  In every scope: after any specialize call, failed on a
\* value or not, a type_param call for a symbol that call registered fails
\* with the duplicate error for that symbol; and after a type_param call has
\* declared a new symbol, a specialize call binding it to a type value
\* succeeds.
C20_OrderMatters ==
  /\ [](\A t \in Threads :
          Active(t) =>
            /\ \A type_bindings \in BindingItems :
                 LET r == specialize(heap, ctx, t, type_bindings)
                     k == FirstOf(Invalid(type_bindings))
                     n == IF k = 0 THEN Len(type_bindings) ELSE k
                 IN \A sym \in BoundUpTo(type_bindings, n) :
                      type_param(r.heap, ctx, t, <<sym>>).err =
                        DuplicateError([type_symbol |-> sym])
            /\ \A sym \in Names \ DOMAIN Registry(heap, ActiveDef(t)) :
                 LET r == type_param(heap, ctx, t, <<sym>>)
                 IN /\ r.err = NoErr
                    /\ \A ir_type \in IrTypes :
                         specialize(r.heap, ctx, t, << <<sym, ir_type>> >>).err = NoErr)
  /\ [][\A t \in Threads :
          /\ \A type_symbols \in SymSeqs \ {<<>>} :
               (/\ Active(t)
                /\ result[t].fn = "specialize" /\ result[t].err = NoErr
                /\ type_symbols[1] \in
                     BoundUpTo(result[t].args, Len(result[t].args))
                /\ Declare(t, type_symbols)) =>
                 result'[t].err = DuplicateError([type_symbol |-> type_symbols[1]])
          /\ \A type_bindings \in BindingItems :
               (/\ Active(t)
                /\ result[t].fn = "type_param" /\ result[t].err = NoErr
                /\ BoundUpTo(type_bindings, Len(type_bindings))
                     \subseteq result[t].added
                /\ Invalid(type_bindings) = {}
                /\ Specialize(t, type_bindings)) =>
                 result'[t].err = NoErr]_vars

\* type_param('J') failed with the duplicate error in a Definition whose
\* only specialization binds 'J' and whose registry has 'J' only
C20_Witness ==
  /\ Active(MainThread)
  /\ result[MainThread].fn = "type_param"
  /\ result[MainThread].args = <<"J">>
  /\ result[MainThread].err = DuplicateError([type_symbol |-> "J"])
  /\ DOMAIN Registry(heap, ActiveDef(MainThread)) = {"J"}
  /\ Log(heap, ActiveDef(MainThread)) = << [n \in {"J"} |-> "f32"] >>

====
